---- MODULE Spec2Model ----
(***************************************************************************)
(* jexl-to-estree: translation of a Jexl expression tree into an ESTree    *)
(* expression tree (estreeFromJexlAst), with inlining of custom functions, *)
(* transforms and operators and the optional-chaining pass.                *)
(*                                                                         *)
(* Trees are records tagged by `type`.  Literal values and names are       *)
(* strings.  A thrown Error is the record Err(message); it propagates      *)
(* through every caller, as an exception does.                             *)
(***************************************************************************)
EXTENDS Integers, Sequences, FiniteSets, TLC

VARIABLES ast, options, result, passes, pc

vars == <<ast, options, result, passes, pc>>

-----------------------------------------------------------------------------
(* Values shared by both trees *)

\* JavaScript `undefined`: a missing `from`, a missing table entry, no result yet.
Undefined == [type |-> "undefined"]

\* A thrown Error.
Err(message) == [type |-> "Error", message |-> message]

IsErr(x) == x.type = "Error"

IsDefined(x) == x.type # "undefined"

\* obj[key] of a JavaScript object used as a table: undefined when absent.
Lookup(table, key) == IF key \in DOMAIN table THEN table[key] ELSE Undefined

\* a ?? b
Coalesce(a, b) == IF IsDefined(a) THEN a ELSE b

\* The first thrown Error among already evaluated children, in evaluation
\* order, else the node built from them.
RECURSIVE FirstErr(_, _)
FirstErr(children, node) ==
  IF children = <<>> THEN node
  ELSE IF IsErr(Head(children)) THEN Head(children)
  ELSE FirstErr(Tail(children), node)

-----------------------------------------------------------------------------
(* Source tree (Jexl AST) node shapes *)

JLiteral(v) == [type |-> "Literal", value |-> v]

JIdentifier(name) ==
  [type |-> "Identifier", value |-> name, from |-> Undefined, relative |-> FALSE]

JRelative(name) ==
  [type |-> "Identifier", value |-> name, from |-> Undefined, relative |-> TRUE]

JMember(from, name) ==
  [type |-> "Identifier", value |-> name, from |-> from, relative |-> FALSE]

JUnary(op, right) == [type |-> "UnaryExpression", operator |-> op, right |-> right]

JBinary(op, left, right) ==
  [type |-> "BinaryExpression", operator |-> op, left |-> left, right |-> right]

JConditional(test, consequent, alternate) ==
  [type |-> "ConditionalExpression", test |-> test,
   consequent |-> consequent, alternate |-> alternate]

JArray(elems) == [type |-> "ArrayLiteral", value |-> elems]

\* An object literal keeps its entries in insertion order: <<[key, value], ...>>.
JObject(entries) == [type |-> "ObjectLiteral", value |-> entries]

JFilter(subject, expr, relative) ==
  [type |-> "FilterExpression", subject |-> subject, expr |-> expr,
   relative |-> relative]

JCall(pool, name, args) ==
  [type |-> "FunctionCall", pool |-> pool, name |-> name, args |-> args]

-----------------------------------------------------------------------------
(* Target tree (ESTree) builders, `b` of estree-toolkit *)

\* A literal's JavaScript value, tagged with its `typeof`.
Num(v) == [t |-> "number", v |-> v]

Str(v) == [t |-> "string", v |-> v]

literal(v) == [type |-> "Literal", value |-> v]

identifier(name) == [type |-> "Identifier", name |-> name]

\* b.memberExpression(object, property, computed = false, optional = false)
memberExpression(object, property, computed) ==
  [type |-> "MemberExpression", object |-> object, property |-> property,
   computed |-> computed, optional |-> FALSE]

unaryExpression(op, argument) ==
  [type |-> "UnaryExpression", operator |-> op, argument |-> argument]

binaryExpression(op, left, right) ==
  [type |-> "BinaryExpression", operator |-> op, left |-> left, right |-> right]

logicalExpression(op, left, right) ==
  [type |-> "LogicalExpression", operator |-> op, left |-> left, right |-> right]

conditionalExpression(test, consequent, alternate) ==
  [type |-> "ConditionalExpression", test |-> test,
   consequent |-> consequent, alternate |-> alternate]

\* Mutant: the elements in reverse order.
arrayExpression_Reversed(elements) ==
  [type |-> "ArrayExpression",
   elements |-> [i \in 1..Len(elements) |-> elements[Len(elements) + 1 - i]]]

arrayExpression(elements) == [type |-> "ArrayExpression", elements |-> elements]

objectExpression(properties) ==
  [type |-> "ObjectExpression", properties |-> properties]

\* b.property("init", key, value, computed, shorthand)
property(key, value, computed, shorthand) ==
  [type |-> "Property", key |-> key, value |-> value,
   computed |-> computed, shorthand |-> shorthand]

objectPattern(properties) == [type |-> "ObjectPattern", properties |-> properties]

callExpression(callee, arguments) ==
  [type |-> "CallExpression", callee |-> callee, arguments |-> arguments]

newExpression(callee, arguments) ==
  [type |-> "NewExpression", callee |-> callee, arguments |-> arguments]

arrowFunctionExpression(params, body) ==
  [type |-> "ArrowFunctionExpression", params |-> params, body |-> body]

functionDeclaration(name, params, body) ==
  [type |-> "FunctionDeclaration", id |-> identifier(name), params |-> params,
   body |-> body]

blockStatement(body) == [type |-> "BlockStatement", body |-> body]

returnStatement(argument) == [type |-> "ReturnStatement", argument |-> argument]

expressionStatement(expression) ==
  [type |-> "ExpressionStatement", expression |-> expression]

program(body) == [type |-> "Program", body |-> body]

-----------------------------------------------------------------------------
(* Custom implementations *)

\* A JavaScript value used as an implementation.  `parsed` is what the
\* function-parser collaborator returns for its printed source (toString()):
\* a Program, or a thrown Error when the source does not parse.
Function(parsed) == [type |-> "Function", parsed |-> parsed]

\* options.functionParser?.(func.toString())
functionParser(opts, func) ==
  IF opts.functionParser THEN func.parsed ELSE Undefined

\* functionParams.findIndex(param => is.identifier(param) && param.name === name),
\* 1-based; 0 when there is none.
RECURSIVE findIndexFrom(_, _, _)
findIndexFrom(functionParams, name, i) ==
  IF i > Len(functionParams) THEN 0
  ELSE IF functionParams[i].type = "Identifier" /\ functionParams[i].name = name
       THEN i
       ELSE findIndexFrom(functionParams, name, i + 1)

findIndex(functionParams, name) == findIndexFrom(functionParams, name, 1)

\* Mutant: the parameters are matched with the last arguments of the call
\* instead of the first.
replaceReference_LastArguments(node, functionParams, args) ==
  LET functionParamIndex == findIndex(functionParams, node.name)
      argumentIndex == Len(args) - Len(functionParams) + functionParamIndex
  IN IF functionParamIndex >= 1
     THEN IF functionParamIndex <= Len(args) /\ argumentIndex >= 1
          THEN args[argumentIndex]
          ELSE identifier("undefined")
     ELSE node

\* The Identifier visitor of the substitution traversal, on an identifier that
\* utils.isReference accepts.
replaceReference(node, functionParams, args) ==
  LET functionParamIndex == findIndex(functionParams, node.name)
  IN IF functionParamIndex >= 1
     THEN IF functionParamIndex <= Len(args)
          THEN args[functionParamIndex]
          ELSE identifier("undefined")
     ELSE node

\* The substitution traversal: every identifier in reference position is
\* handed to the Identifier visitor; property names of non-computed member
\* accesses, non-computed object keys and parameters are not references.
RECURSIVE substitute(_, _, _)
substitute(node, functionParams, args) ==
  LET S(n) == substitute(n, functionParams, args)
      SS(ns) == [i \in 1..Len(ns) |-> substitute(ns[i], functionParams, args)]
  IN CASE node.type = "Identifier" -> replaceReference(node, functionParams, args)
       [] node.type = "Literal" -> node
       [] node.type = "MemberExpression" ->
            [node EXCEPT !.object = S(node.object),
                         !.property = IF node.computed THEN S(node.property)
                                      ELSE node.property]
       [] node.type = "UnaryExpression" -> [node EXCEPT !.argument = S(node.argument)]
       [] node.type \in {"BinaryExpression", "LogicalExpression"} ->
            [node EXCEPT !.left = S(node.left), !.right = S(node.right)]
       [] node.type = "ConditionalExpression" ->
            [node EXCEPT !.test = S(node.test),
                         !.consequent = S(node.consequent),
                         !.alternate = S(node.alternate)]
       [] node.type = "ArrayExpression" -> [node EXCEPT !.elements = SS(node.elements)]
       [] node.type = "ObjectExpression" ->
            [node EXCEPT !.properties = SS(node.properties)]
       [] node.type = "Property" ->
            [node EXCEPT !.key = IF node.computed THEN S(node.key) ELSE node.key,
                         !.value = S(node.value)]
       [] node.type \in {"CallExpression", "NewExpression"} ->
            [node EXCEPT !.callee = S(node.callee),
                         !.arguments = SS(node.arguments)]
       [] node.type = "ArrowFunctionExpression" -> [node EXCEPT !.body = S(node.body)]
       [] node.type = "BlockStatement" -> [node EXCEPT !.body = SS(node.body)]
       [] node.type = "ReturnStatement" -> [node EXCEPT !.argument = S(node.argument)]
       [] node.type = "ExpressionStatement" ->
            [node EXCEPT !.expression = S(node.expression)]
       [] OTHER -> node

\* The argument objects the substitution traversal puts into the body, as
\* their indexes in `args`, in the order of the traversal: path.replaceWith
\* is handed args[functionParamIndex] itself at every site, and a new
\* `undefined` identifier where the argument is missing.
RECURSIVE insertedArguments(_, _, _)
insertedArguments(node, functionParams, args) ==
  LET S(n) == insertedArguments(n, functionParams, args)
      RECURSIVE SS(_)
      SS(ns) == IF ns = <<>> THEN <<>> ELSE S(Head(ns)) \o SS(Tail(ns))
  IN CASE node.type = "Identifier" ->
            LET functionParamIndex == findIndex(functionParams, node.name)
            IN IF functionParamIndex >= 1 /\ functionParamIndex <= Len(args)
               THEN <<functionParamIndex>> ELSE <<>>
       [] node.type = "Literal" -> <<>>
       [] node.type = "MemberExpression" ->
            S(node.object) \o (IF node.computed THEN S(node.property) ELSE <<>>)
       [] node.type = "UnaryExpression" -> S(node.argument)
       [] node.type \in {"BinaryExpression", "LogicalExpression"} ->
            S(node.left) \o S(node.right)
       [] node.type = "ConditionalExpression" ->
            S(node.test) \o S(node.consequent) \o S(node.alternate)
       [] node.type = "ArrayExpression" -> SS(node.elements)
       [] node.type = "ObjectExpression" -> SS(node.properties)
       [] node.type = "Property" ->
            (IF node.computed THEN S(node.key) ELSE <<>>) \o S(node.value)
       [] node.type \in {"CallExpression", "NewExpression"} ->
            S(node.callee) \o SS(node.arguments)
       [] node.type = "ArrowFunctionExpression" -> S(node.body)
       [] node.type = "BlockStatement" -> SS(node.body)
       [] node.type = "ReturnStatement" -> S(node.argument)
       [] node.type = "ExpressionStatement" -> S(node.expression)
       [] OTHER -> <<>>

\* Mutant: every `undefined` argument is removed, wherever it stands.
spliceTrailingUndefined_Every(arguments) ==
  SelectSeq(arguments,
            LAMBDA argumentNode :
              ~(argumentNode.type = "Identifier"
                  /\ argumentNode.name = "undefined"))

\* The loop of the CallExpression visitor: splice trailing `undefined`
\* identifiers off the argument list, stopping at the first other argument.
RECURSIVE spliceTrailingUndefined(_)
spliceTrailingUndefined(arguments) ==
  IF arguments = <<>> THEN arguments
  ELSE LET argumentNode == arguments[Len(arguments)]
       IN IF argumentNode.type = "Identifier" /\ argumentNode.name = "undefined"
          THEN spliceTrailingUndefined(SubSeq(arguments, 1, Len(arguments) - 1))
          ELSE arguments

\* The pruning traversal: the CallExpression visitor on every call of the body.
RECURSIVE prune(_)
prune(node) ==
  LET PP(ns) == [i \in 1..Len(ns) |-> prune(ns[i])]
  IN CASE node.type = "CallExpression" ->
            [node EXCEPT !.callee = prune(node.callee),
                         !.arguments = PP(spliceTrailingUndefined(node.arguments))]
       [] node.type = "NewExpression" ->
            [node EXCEPT !.callee = prune(node.callee),
                         !.arguments = PP(node.arguments)]
       [] node.type = "MemberExpression" ->
            [node EXCEPT !.object = prune(node.object),
                         !.property = prune(node.property)]
       [] node.type = "UnaryExpression" ->
            [node EXCEPT !.argument = prune(node.argument)]
       [] node.type \in {"BinaryExpression", "LogicalExpression"} ->
            [node EXCEPT !.left = prune(node.left), !.right = prune(node.right)]
       [] node.type = "ConditionalExpression" ->
            [node EXCEPT !.test = prune(node.test),
                         !.consequent = prune(node.consequent),
                         !.alternate = prune(node.alternate)]
       [] node.type = "ArrayExpression" -> [node EXCEPT !.elements = PP(node.elements)]
       [] node.type = "ObjectExpression" ->
            [node EXCEPT !.properties = PP(node.properties)]
       [] node.type = "Property" ->
            [node EXCEPT !.key = prune(node.key), !.value = prune(node.value)]
       [] node.type = "ArrowFunctionExpression" ->
            [node EXCEPT !.body = prune(node.body)]
       [] node.type = "BlockStatement" -> [node EXCEPT !.body = PP(node.body)]
       [] node.type = "ReturnStatement" ->
            [node EXCEPT !.argument = prune(node.argument)]
       [] node.type = "ExpressionStatement" ->
            [node EXCEPT !.expression = prune(node.expression)]
       [] OTHER -> node

\* `functionBody` after the substitution traversal.  The traversal mutates the
\* body in place below the wrapping Program; `functionBody` itself still names
\* the node it named before, so a body that is one replaced identifier is
\* replaced in the wrapper only.
substitutedBody(functionBody, functionParams, args) ==
  IF functionBody.type = "Identifier" THEN functionBody
  ELSE substitute(functionBody, functionParams, args)

\* The tail of createExpressionFromFunction, on the parsed function.
inlineFunction(functionBodyAst, args) ==
  LET functionParams == functionBodyAst.params
      functionBody ==
        prune(substitutedBody(functionBodyAst.body, functionParams, args))
  IN IF functionBody.type = "BlockStatement"
     THEN IF Len(functionBody.body) = 1
             /\ functionBody.body[1].type = "ReturnStatement"
          THEN functionBody.body[1].argument
          ELSE callExpression(arrowFunctionExpression(<<>>, functionBody), <<>>)
     ELSE functionBody

\* Mutant: an Error of the function parser is caught and counts as no inline
\* expression.
createExpressionFromFunction_Swallows(opts, func, args) ==
  IF ~IsDefined(func) THEN Undefined
  ELSE LET parsed == functionParser(opts, func)
       IN IF IsErr(parsed) THEN Undefined
          ELSE IF ~IsDefined(parsed) \/ parsed.body = <<>> THEN Undefined
          ELSE LET first == parsed.body[1]
                   functionBodyAst ==
                     IF first.type = "ExpressionStatement"
                     THEN first.expression ELSE first
               IN IF functionBodyAst.type
                       \in {"ArrowFunctionExpression", "FunctionDeclaration"}
                  THEN inlineFunction(functionBodyAst, args)
                  ELSE Undefined

\* Mutant: a missing function parser, or a source that is no function, is an
\* Error.
createExpressionFromFunction_Throws(opts, func, args) ==
  IF ~IsDefined(func) THEN Undefined
  ELSE LET parsed == functionParser(opts, func)
       IN IF IsErr(parsed) THEN parsed
          ELSE IF ~IsDefined(parsed) \/ parsed.body = <<>>
               THEN Err("Cannot inline")
          ELSE LET first == parsed.body[1]
                   functionBodyAst ==
                     IF first.type = "ExpressionStatement"
                     THEN first.expression ELSE first
               IN IF functionBodyAst.type
                       \in {"ArrowFunctionExpression", "FunctionDeclaration"}
                  THEN inlineFunction(functionBodyAst, args)
                  ELSE Err("Cannot inline")

\* createExpressionFromFunction(func, args): the inline expression, undefined
\* when there is none, or the Error the function parser throws.
createExpressionFromFunction(opts, func, args) ==
  IF ~IsDefined(func) THEN Undefined
  ELSE LET parsed == functionParser(opts, func)
       IN IF IsErr(parsed) THEN parsed
          ELSE IF ~IsDefined(parsed) \/ parsed.body = <<>> THEN Undefined
          ELSE LET first == parsed.body[1]
                   functionBodyAst ==
                     IF first.type = "ExpressionStatement"
                     THEN first.expression ELSE first
               IN IF functionBodyAst.type
                       \in {"ArrowFunctionExpression", "FunctionDeclaration"}
                  THEN inlineFunction(functionBodyAst, args)
                  ELSE Undefined

-----------------------------------------------------------------------------
(* Optional chaining *)

BUILT_IN_IDENTIFIERS ==
  {"Object", "Array", "String", "Number", "Boolean", "Date", "Math", "JSON",
   "Error", "Map", "Set", "WeakMap", "WeakSet", "Promise", "Symbol", "RegExp",
   "BigInt", "BigInt64Array", "BigUint64Array", "Int8Array", "Int16Array",
   "Int32Array", "Uint8Array", "Uint8ClampedArray", "Uint16Array",
   "Uint32Array", "Float32Array", "Float64Array", "DataView"}

\* Mutant: only an array counts as a static literal.
isStaticExpression_ArraysOnly(expr) == expr.type = "ArrayExpression"

isStaticExpression(expr) ==
  expr.type \in {"ArrayExpression", "ObjectExpression", "Literal"}

RECURSIVE getIdentifierPathFromNodePath(_)
getIdentifierPathFromNodePath(node) ==
  IF node.type = "Identifier" THEN <<node.name>>
  ELSE IF node.type = "MemberExpression"
       THEN LET objectPath == getIdentifierPathFromNodePath(node.object)
            IN IF node.property.type = "Identifier"
               THEN Append(objectPath, node.property.name)
               ELSE IF node.property.type = "Literal"
                       /\ node.property.value.t = "string"
                    THEN Append(objectPath, node.property.value.v)
                    ELSE <<>>
       ELSE <<>>

\* Mutant: the predicate is asked about the root name only when the path is
\* that one name.
isIdentifierAlwaysDefined_RootOnly(opts, identifierPath) ==
  Len(identifierPath) = 1 /\ identifierPath \in opts.isIdentifierAlwaysDefined

\* options.isIdentifierAlwaysDefined?.(identifierPath): the predicate is the
\* set of paths it accepts; an absent predicate accepts none.
isIdentifierAlwaysDefined(opts, identifierPath) ==
  identifierPath \in opts.isIdentifierAlwaysDefined

\* Mutant: the visitor without its first branch, for `new` objects.
optionalOf_NewAsAnyOther(node, opts) ==
  LET identifierPath == getIdentifierPathFromNodePath(node.object)
  IN IF node.object.type \in {"Identifier", "MemberExpression"}
        /\ Len(identifierPath) > 0
        /\ (identifierPath[1] \in BUILT_IN_IDENTIFIERS
            \/ isIdentifierAlwaysDefined(opts, identifierPath))
     THEN FALSE
     ELSE ~isStaticExpression(node.object)

\* The MemberExpression visitor: the value it leaves in node.optional.
optionalOf(node, opts) ==
  IF node.object.type = "NewExpression" THEN FALSE
  ELSE LET identifierPath == getIdentifierPathFromNodePath(node.object)
       IN IF node.object.type \in {"Identifier", "MemberExpression"}
             /\ Len(identifierPath) > 0
             /\ (identifierPath[1] \in BUILT_IN_IDENTIFIERS
                 \/ isIdentifierAlwaysDefined(opts, identifierPath))
          THEN FALSE
          ELSE ~isStaticExpression(node.object)

\* traverse(ast, { MemberExpression }) over the whole tree.
RECURSIVE addOptionalChainingToMemberExpressions(_, _)
addOptionalChainingToMemberExpressions(node, opts) ==
  LET A(n) == addOptionalChainingToMemberExpressions(n, opts)
      AA(ns) == [i \in 1..Len(ns) |-> addOptionalChainingToMemberExpressions(ns[i], opts)]
  IN CASE node.type = "MemberExpression" ->
            [node EXCEPT !.object = A(node.object),
                         !.property = A(node.property),
                         !.optional = optionalOf(node, opts)]
       [] node.type = "UnaryExpression" -> [node EXCEPT !.argument = A(node.argument)]
       [] node.type \in {"BinaryExpression", "LogicalExpression"} ->
            [node EXCEPT !.left = A(node.left), !.right = A(node.right)]
       [] node.type = "ConditionalExpression" ->
            [node EXCEPT !.test = A(node.test),
                         !.consequent = A(node.consequent),
                         !.alternate = A(node.alternate)]
       [] node.type = "ArrayExpression" -> [node EXCEPT !.elements = AA(node.elements)]
       [] node.type \in {"ObjectExpression", "ObjectPattern"} ->
            [node EXCEPT !.properties = AA(node.properties)]
       [] node.type = "Property" ->
            [node EXCEPT !.key = A(node.key), !.value = A(node.value)]
       [] node.type \in {"CallExpression", "NewExpression"} ->
            [node EXCEPT !.callee = A(node.callee),
                         !.arguments = AA(node.arguments)]
       [] node.type = "ArrowFunctionExpression" ->
            [node EXCEPT !.params = AA(node.params), !.body = A(node.body)]
       [] node.type = "BlockStatement" -> [node EXCEPT !.body = AA(node.body)]
       [] node.type = "ReturnStatement" -> [node EXCEPT !.argument = A(node.argument)]
       [] node.type = "ExpressionStatement" ->
            [node EXCEPT !.expression = A(node.expression)]
       [] OTHER -> node

-----------------------------------------------------------------------------
(* Relative identifiers of a filter predicate *)

\* The names pushed to foundIdentifiers, in push order.
RECURSIVE findAllRelativeIdentifiers(_)
RECURSIVE findAllIn(_)
findAllIn(nodes) ==
  IF nodes = <<>> THEN <<>>
  ELSE findAllRelativeIdentifiers(Head(nodes)) \o findAllIn(Tail(nodes))

findAllRelativeIdentifiers(node) ==
  CASE node.type = "Literal" -> <<>>
    [] node.type = "Identifier" -> IF node.relative THEN <<node.value>> ELSE <<>>
    [] node.type = "ArrayLiteral" -> findAllIn(node.value)
    [] node.type = "ObjectLiteral" ->
         findAllIn([i \in 1..Len(node.value) |-> node.value[i].value])
    [] node.type = "FilterExpression" -> findAllIn(<<node.subject, node.expr>>)
    [] node.type = "UnaryExpression" -> findAllIn(<<node.right>>)
    [] node.type = "BinaryExpression" -> findAllIn(<<node.left, node.right>>)
    [] node.type = "ConditionalExpression" ->
         findAllIn(<<node.test, node.consequent, node.alternate>>)
    [] node.type = "FunctionCall" -> findAllIn(node.args)
    [] OTHER -> <<>>

-----------------------------------------------------------------------------
(* The rewriter *)

\* Binary symbols the target has natively, copied as they are.
NATIVE_BINARY_OPERATORS ==
  {"===", "!==", "<", "<=", ">", ">=", "<<", ">>", ">>>", "+", "-", "*", "/",
   "%", "&", "|", "instanceof", "**", "==", "!="}

\* case of the native symbols
translateNative(operator, left, right) == binaryExpression(operator, left, right)

\* Mutant: the implementation the grammar registers for `^`,
\* (left, right) => Math.pow(left, right), inlined in place of the mapping.
translatePower_Registered(left, right) ==
  callExpression(memberExpression(identifier("Math"), identifier("pow"), FALSE),
                 <<left, right>>)

\* Mutant: base and exponent swapped.
translatePower_Swapped(left, right) == binaryExpression("**", right, left)

\* case "^"
translatePower(left, right) == binaryExpression("**", left, right)

\* Mutant: the operands handed to Math.floor as two arguments.
translateFloorDivision_TwoArguments(left, right) ==
  callExpression(
    memberExpression(identifier("Math"), identifier("floor"), FALSE),
    <<left, right>>)

\* case "//"
translateFloorDivision(left, right) ==
  callExpression(
    memberExpression(identifier("Math"), identifier("floor"), FALSE),
    <<binaryExpression("/", left, right)>>)

\* Mutant: receiver and argument swapped.
translateIn_Swapped(left, right) ==
  callExpression(memberExpression(left, identifier("includes"), FALSE), <<right>>)

\* case "in"
translateIn(left, right) ==
  callExpression(memberExpression(right, identifier("includes"), FALSE), <<left>>)

\* The custom operator the grammar registers for `operator` under `kind`
\* (unaryOp / binaryOp): its eval, undefined when there is none.
customOperator(grammar, operator, kind) ==
  LET element == Lookup(grammar.elements, operator)
  IN IF IsDefined(element) /\ element.type = kind THEN element.eval
     ELSE Undefined

\* Mutant: the grammar's entry wins over the caller's override.
resolveImplementation_GrammarFirst(grammar, opts, pool, name) ==
  CASE pool = "transforms" ->
         Coalesce(Lookup(grammar.transforms, name),
                  Lookup(opts.translateTransforms, name))
    [] pool = "functions" ->
         Coalesce(Lookup(grammar.functions, name),
                  Lookup(opts.translateFunctions, name))
    [] OTHER -> Undefined

\* options.translateTransforms?.[name] ?? grammar.transforms[name], and the
\* same for functions; undefined for any other pool.
resolveImplementation(grammar, opts, pool, name) ==
  CASE pool = "transforms" ->
         Coalesce(Lookup(opts.translateTransforms, name),
                  Lookup(grammar.transforms, name))
    [] pool = "functions" ->
         Coalesce(Lookup(opts.translateFunctions, name),
                  Lookup(grammar.functions, name))
    [] OTHER -> Undefined

\* Mutant: only a literal or an identifier indexes; any other predicate is
\* handed to .filter as a parameterless arrow.
translateIndex_FilterCall(subject, expr) ==
  IF expr.type \in {"Literal", "Identifier"}
  THEN memberExpression(subject, expr, TRUE)
  ELSE callExpression(memberExpression(subject, identifier("filter"), FALSE),
                      <<arrowFunctionExpression(<<>>, expr)>>)

\* A filter that is not relative: indexing into an object/array.
translateIndex(subject, expr) == memberExpression(subject, expr, TRUE)

\* The parameter list of the predicate arrow of a relative filter.
relativeFilterParams(expr) ==
  LET names == findAllRelativeIdentifiers(expr)
  IN [i \in 1..Len(names) |->
        objectPattern(<<property(identifier(names[i]), identifier(names[i]),
                                 FALSE, TRUE)>>)]

RECURSIVE estreeFromJexlAst(_, _, _)
RECURSIVE _estreeFromJexlAst(_, _, _)

\* _estreeFromJexlAst: the tree without the optional-chaining pass of this call.
_estreeFromJexlAst(grammar, node, opts) ==
  LET recur(childAst) == estreeFromJexlAst(grammar, childAst, opts)
      recurAll(children) ==
        [i \in 1..Len(children) |-> estreeFromJexlAst(grammar, children[i], opts)]
  IN CASE node.type = "Literal" -> literal(node.value)
       [] node.type = "Identifier" ->
            IF IsDefined(node.from)
            THEN LET object == recur(node.from)
                 IN FirstErr(<<object>>,
                      memberExpression(object, identifier(node.value), FALSE))
            ELSE identifier(node.value)
       [] node.type = "UnaryExpression" ->
            IF node.operator = "!"
            THEN LET right == recur(node.right)
                 IN FirstErr(<<right>>, unaryExpression("!", right))
            ELSE LET eval == customOperator(grammar, node.operator, "unaryOp")
                     right == recur(node.right)
                     newAstFromFunction ==
                       createExpressionFromFunction(opts, eval, <<right>>)
                 IN IF IsDefined(eval)
                       /\ (IsErr(right) \/ IsDefined(newAstFromFunction))
                    THEN FirstErr(<<right>>, newAstFromFunction)
                    ELSE Err("Unknown unary operator: " \o node.operator)
       [] node.type = "BinaryExpression" ->
            LET left == recur(node.left)
                right == recur(node.right)
            IN CASE node.operator \in {"&&", "||"} ->
                      FirstErr(<<left, right>>,
                               logicalExpression(node.operator, left, right))
                 [] node.operator \in NATIVE_BINARY_OPERATORS ->
                      FirstErr(<<left, right>>,
                               translateNative(node.operator, left, right))
                 [] node.operator = "^" ->
                      FirstErr(<<left, right>>, translatePower(left, right))
                 [] node.operator = "//" ->
                      FirstErr(<<left, right>>, translateFloorDivision(left, right))
                 [] node.operator = "in" ->
                      FirstErr(<<right, left>>, translateIn(left, right))
                 [] OTHER ->
                      LET eval == customOperator(grammar, node.operator, "binaryOp")
                          newAstFromFunction ==
                            createExpressionFromFunction(opts, eval, <<left, right>>)
                      IN IF IsDefined(eval)
                            /\ (IsErr(left) \/ IsErr(right)
                                \/ IsDefined(newAstFromFunction))
                         THEN FirstErr(<<left, right>>, newAstFromFunction)
                         ELSE Err("Unknown binary operator: " \o node.operator)
       [] node.type = "ConditionalExpression" ->
            LET test == recur(node.test)
                consequent == recur(node.consequent)
                alternate == recur(node.alternate)
            IN FirstErr(<<test, consequent, alternate>>,
                        conditionalExpression(test, consequent, alternate))
       [] node.type = "ArrayLiteral" ->
            LET elements == recurAll(node.value)
            IN FirstErr(elements, arrayExpression(elements))
       [] node.type = "ObjectLiteral" ->
            LET values == recurAll([i \in 1..Len(node.value) |-> node.value[i].value])
            IN FirstErr(values,
                 objectExpression(
                   [i \in 1..Len(values) |->
                      property(identifier(node.value[i].key), values[i],
                               FALSE, FALSE)]))
       [] node.type = "FilterExpression" ->
            LET subject == recur(node.subject)
                expr == recur(node.expr)
            IN IF node.relative
               THEN FirstErr(<<subject, expr>>,
                      callExpression(
                        memberExpression(subject, identifier("filter"), FALSE),
                        <<arrowFunctionExpression(
                            relativeFilterParams(node.expr), expr)>>))
               ELSE FirstErr(<<subject, expr>>, translateIndex(subject, expr))
       [] node.type = "FunctionCall" ->
            LET func == resolveImplementation(grammar, opts, node.pool, node.name)
                args == recurAll(node.args)
                newAstFromFunction == createExpressionFromFunction(opts, func, args)
            IN FirstErr(args,
                 IF IsDefined(newAstFromFunction) THEN newAstFromFunction
                 ELSE callExpression(identifier(node.name), args))

\* estreeFromJexlAst: the rewritten tree, then the optional-chaining pass.
estreeFromJexlAst(grammar, node, opts) ==
  LET esTreeAst == _estreeFromJexlAst(grammar, node, opts)
  IN IF IsErr(esTreeAst) THEN esTreeAst
     ELSE addOptionalChainingToMemberExpressions(esTreeAst, opts)

\* The operators `_estreeFromJexlAst` looks up in no table.
STATIC_BINARY_OPERATORS == {"&&", "||", "^", "//", "in"} \cup NATIVE_BINARY_OPERATORS

\* The children `_estreeFromJexlAst` hands to recur, in the order of the
\* calls.  A custom operator translates its operands only once its entry is
\* found; a call whose implementation could not be inlined maps recur over
\* its arguments a second time for the plain call.
recurCalls(grammar, node, opts) ==
  CASE node.type = "Literal" -> <<>>
    [] node.type = "Identifier" ->
         IF IsDefined(node.from) THEN <<node.from>> ELSE <<>>
    [] node.type = "UnaryExpression" ->
         IF node.operator = "!"
            \/ IsDefined(customOperator(grammar, node.operator, "unaryOp"))
         THEN <<node.right>> ELSE <<>>
    [] node.type = "BinaryExpression" ->
         IF node.operator = "in" THEN <<node.right, node.left>>
         ELSE IF node.operator \in STATIC_BINARY_OPERATORS
                 \/ IsDefined(customOperator(grammar, node.operator, "binaryOp"))
              THEN <<node.left, node.right>> ELSE <<>>
    [] node.type = "ConditionalExpression" ->
         <<node.test, node.consequent, node.alternate>>
    [] node.type = "ArrayLiteral" -> node.value
    [] node.type = "ObjectLiteral" ->
         [i \in 1..Len(node.value) |-> node.value[i].value]
    [] node.type = "FilterExpression" -> <<node.subject, node.expr>>
    [] node.type = "FunctionCall" ->
         LET func == resolveImplementation(grammar, opts, node.pool, node.name)
             args == [i \in 1..Len(node.args) |->
                        estreeFromJexlAst(grammar, node.args[i], opts)]
         IN IF IsDefined(func)
               /\ (\A i \in 1..Len(args) : ~IsErr(args[i]))
               /\ ~IsDefined(createExpressionFromFunction(opts, func, args))
            THEN node.args \o node.args
            ELSE node.args

\* The number of times one call of estreeFromJexlAst on `node` runs
\* addOptionalChainingToMemberExpressions: once for every estreeFromJexlAst
\* that rewrote its tree without a throw, recur's calls included; a throw
\* ends the calls that would have followed it.
RECURSIVE annotatorRuns(_, _, _)
RECURSIVE annotatorRunsFrom(_, _, _, _)
annotatorRunsFrom(grammar, calls, opts, i) ==
  IF i > Len(calls) THEN 0
  ELSE annotatorRuns(grammar, calls[i], opts)
       + (IF IsErr(estreeFromJexlAst(grammar, calls[i], opts)) THEN 0
          ELSE annotatorRunsFrom(grammar, calls, opts, i + 1))

annotatorRuns(grammar, node, opts) ==
  annotatorRunsFrom(grammar, recurCalls(grammar, node, opts), opts, 1)
  + (IF IsErr(_estreeFromJexlAst(grammar, node, opts)) THEN 0 ELSE 1)

-----------------------------------------------------------------------------
(* The grammar and the configurations of the calls *)

Arrow(params, body) ==
  Function(program(<<expressionStatement(
    arrowFunctionExpression([i \in 1..Len(params) |-> identifier(params[i])],
                            body))>>))

Method(object, name) == memberExpression(object, identifier(name), FALSE)

\* (val) => val.length
LengthTransform == Arrow(<<"val">>, Method(identifier("val"), "length"))

\* (val, radix) => parseInt(val, radix)
ParseIntTransform ==
  Arrow(<<"val", "radix">>,
        callExpression(identifier("parseInt"),
                       <<identifier("val"), identifier("radix")>>))

\* function every(values, matchValue) {
\*   return values.every((v) => v === matchValue);
\* }
EveryTransform ==
  Function(program(<<functionDeclaration("every",
    <<identifier("values"), identifier("matchValue")>>,
    blockStatement(<<returnStatement(
      callExpression(Method(identifier("values"), "every"),
        <<arrowFunctionExpression(<<identifier("v")>>,
            binaryExpression("===", identifier("v"),
                             identifier("matchValue")))>>))>>))>>))

\* Math.floor, registered as it is: its printed source is
\* "function floor() { [native code] }", which no parser accepts.
NativeTransform == Function(Err("SyntaxError: Unexpected token"))

\* An implementation given as the text "value + 1": it parses, to no function.
TextTransform ==
  Function(program(<<expressionStatement(
    binaryExpression("+", identifier("value"), literal(Num("1"))))>>))

\* (v, matchValue) => v.some((v) => v === matchValue)
HasTransform ==
  Arrow(<<"v", "matchValue">>,
    callExpression(Method(identifier("v"), "some"),
      <<arrowFunctionExpression(<<identifier("v")>>,
          binaryExpression("===", identifier("v"),
                           identifier("matchValue")))>>))

\* (val, key) => ({ key: val }).key
PickTransform ==
  Arrow(<<"val", "key">>,
    Method(objectExpression(<<property(identifier("key"), identifier("val"),
                                       FALSE, FALSE)>>),
           "key"))

\* (val, fill) => String(pad(fill, val, fill), fill)
PadTransform ==
  Arrow(<<"val", "fill">>,
    callExpression(identifier("String"),
      <<callExpression(identifier("pad"),
          <<identifier("fill"), identifier("val"), identifier("fill")>>),
        identifier("fill")>>))

\* (value) => value
IdFunction == Arrow(<<"value">>, identifier("value"))

\* () => Number.EPSILON.toFixed()
EpsilonFunction ==
  Arrow(<<>>,
    callExpression(Method(Method(identifier("Number"), "EPSILON"), "toFixed"),
                   <<>>))

\* () => Date.now()
NowFunction == Arrow(<<>>, callExpression(Method(identifier("Date"), "now"), <<>>))

\* (value) => { console.log(value); return true; }
PrintFunction ==
  Arrow(<<"value">>,
    blockStatement(<<
      expressionStatement(
        callExpression(Method(identifier("console"), "log"),
                       <<identifier("value")>>)),
      returnStatement(literal([t |-> "boolean", v |-> "true"]))>>))

\* (value) => { console.log(value); }
LogFunction ==
  Arrow(<<"value">>,
    blockStatement(<<
      expressionStatement(
        callExpression(Method(identifier("console"), "log"),
                       <<identifier("value")>>))>>))

\* (value) => !!value
NotNotOperator ==
  Arrow(<<"value">>, unaryExpression("!", unaryExpression("!", identifier("value"))))

\* (a, b) => a + b
ConcatOperator ==
  Arrow(<<"a", "b">>, binaryExpression("+", identifier("a"), identifier("b")))

\* (a, b) => { return new Array(b - a).fill(0).map((_, i) => a + i); }
RangeOperator ==
  Arrow(<<"a", "b">>,
    blockStatement(<<returnStatement(
      callExpression(
        Method(callExpression(
                 Method(newExpression(identifier("Array"),
                          <<binaryExpression("-", identifier("b"), identifier("a"))>>),
                        "fill"),
                 <<literal(Num("0"))>>),
               "map"),
        <<arrowFunctionExpression(<<identifier("_"), identifier("i")>>,
            binaryExpression("+", identifier("a"), identifier("i")))>>))>>))

\* Jexl's own (left, right) => Math.pow(left, right)
PowOperator ==
  Arrow(<<"left", "right">>,
        callExpression(Method(identifier("Math"), "pow"),
                       <<identifier("left"), identifier("right")>>))

\* Jexl's own (left, right) => left == right
EqOperator ==
  Arrow(<<"left", "right">>,
        binaryExpression("==", identifier("left"), identifier("right")))

\* Jexl's own (right) => !right
NotOperator == Arrow(<<"right">>, unaryExpression("!", identifier("right")))

Element(kind, eval) == [type |-> kind, eval |-> eval]

\* jexl._grammar: Jexl's own elements and the registrations of the tests.
GRAMMAR ==
  [elements |->
     [sym \in {"^", "==", "!", "~", "<>", "..", "%%", "("} |->
        CASE sym = "^" -> Element("binaryOp", PowOperator)
          [] sym = "==" -> Element("binaryOp", EqOperator)
          [] sym = "!" -> Element("unaryOp", NotOperator)
          [] sym = "~" -> Element("unaryOp", NotNotOperator)
          [] sym = "<>" -> Element("binaryOp", ConcatOperator)
          [] sym = ".." -> Element("binaryOp", RangeOperator)
          [] sym = "%%" -> Element("binaryOp", NativeTransform)
          [] sym = "(" -> Element("openParen", Undefined)],
   transforms |->
     [name \in {"length", "parseInt", "every", "native", "text",
                "has", "pick", "pad"} |->
        CASE name = "length" -> LengthTransform
          [] name = "parseInt" -> ParseIntTransform
          [] name = "every" -> EveryTransform
          [] name = "native" -> NativeTransform
          [] name = "text" -> TextTransform
          [] name = "has" -> HasTransform
          [] name = "pick" -> PickTransform
          [] name = "pad" -> PadTransform],
   functions |->
     [name \in {"now", "print", "log", "id", "epsilon", "native"} |->
        CASE name = "now" -> NowFunction
          [] name = "print" -> PrintFunction
          [] name = "log" -> LogFunction
          [] name = "id" -> IdFunction
          [] name = "epsilon" -> EpsilonFunction
          [] name = "native" -> NativeTransform]]

\* (value, arg) => arg + value
PrefixOverride ==
  Arrow(<<"value", "arg">>,
        binaryExpression("+", identifier("arg"), identifier("value")))

\* (value) => new Date(value).toString()
DateStringOverride ==
  Arrow(<<"value">>,
    callExpression(
      Method(newExpression(identifier("Date"), <<identifier("value")>>), "toString"),
      <<>>))

\* (val) => val.size
SizeOverride == Arrow(<<"val">>, Method(identifier("val"), "size"))

\* () => performance.now()
ClockOverride ==
  Arrow(<<>>, callExpression(Method(identifier("performance"), "now"), <<>>))

NoTable == [name \in {} |-> Undefined]

\* estreeFromJexlAst(grammar, ast): options = {}
NoOptions ==
  [functionParser |-> FALSE, translateTransforms |-> NoTable,
   translateFunctions |-> NoTable, isIdentifierAlwaysDefined |-> {}]

\* The options of the tests.
TestOptions ==
  [functionParser |-> TRUE,
   translateTransforms |-> [name \in {"prefix"} |-> PrefixOverride],
   translateFunctions |-> [name \in {"dateString"} |-> DateStringOverride],
   isIdentifierAlwaysDefined |-> {<<"console">>, <<"foo">>}]

\* Overrides under names the grammar registers too, in both pools.
ShadowOptions ==
  [functionParser |-> TRUE,
   translateTransforms |->
     [name \in {"length", "now"} |->
        IF name = "length" THEN SizeOverride ELSE PrefixOverride],
   translateFunctions |->
     [name \in {"now", "length"} |->
        IF name = "now" THEN ClockOverride ELSE DateStringOverride],
   isIdentifierAlwaysDefined |->
     {<<"foo">>, <<"foo", "qux">>, <<"foo", "foo">>}]

\* The overrides of the tests, without a function parser.
NoParserOptions ==
  [TestOptions EXCEPT !.functionParser = FALSE,
                      !.isIdentifierAlwaysDefined = {<<"console">>, <<"qux">>}]

OptionSets == {NoOptions, TestOptions, ShadowOptions, NoParserOptions}

-----------------------------------------------------------------------------
(* The source trees handed to the translation *)

\* Nesting depth of the source trees.
MaxDepth == 2

\* Most arguments of a call in a source tree.
MaxArgs == 2

Three == JLiteral(Num("3"))

Foo == JIdentifier("foo")

Leaves == {Three, Foo, JRelative("bar"), JRelative("baz")}

\* Whether a predicate holds a relative identifier, as Jexl's parser sees it
\* when it sets `relative` on a filter.
RECURSIVE HasRelative(_)
HasRelative(node) ==
  CASE node.type = "Literal" -> FALSE
    [] node.type = "Identifier" ->
         node.relative \/ (IsDefined(node.from) /\ HasRelative(node.from))
    [] node.type = "ArrayLiteral" ->
         \E i \in 1..Len(node.value) : HasRelative(node.value[i])
    [] node.type = "ObjectLiteral" ->
         \E i \in 1..Len(node.value) : HasRelative(node.value[i].value)
    [] node.type = "FilterExpression" ->
         HasRelative(node.subject) \/ HasRelative(node.expr)
    [] node.type = "UnaryExpression" -> HasRelative(node.right)
    [] node.type = "BinaryExpression" ->
         HasRelative(node.left) \/ HasRelative(node.right)
    [] node.type = "ConditionalExpression" ->
         HasRelative(node.test) \/ HasRelative(node.consequent)
           \/ HasRelative(node.alternate)
    [] node.type = "FunctionCall" ->
         \E i \in 1..Len(node.args) : HasRelative(node.args[i])

LeftOperators ==
  {"==", "!=", "^", "//", "in", "&&", "+", "<>", "..", "%%", "??"}

RightOperators == {"==", "in", "<>", "~", "&&"}

UnaryOperators == {"!", "~", "<>", "??"}

\* The operators and structures with `t` as an operand.
OperatorWraps(t) ==
  {JBinary(op, t, Three) : op \in LeftOperators}
    \cup {JBinary(op, JRelative("bar"), t) : op \in RightOperators}
    \cup {JUnary(op, t) : op \in UnaryOperators}
    \cup {JConditional(t, Three, Foo),
          JArray(<<Three, t>>),
          JArray(<<t, t>>),
          JObject(<<[key |-> "one", value |-> t], [key |-> "two", value |-> Three]>>),
          JMember(t, "qux"),
          JFilter(t, Three, FALSE),
          JFilter(Foo, t, HasRelative(t))}

Callables ==
  {<<"transforms", "length">>, <<"transforms", "parseInt">>,
   <<"transforms", "every">>, <<"transforms", "prefix">>,
   <<"transforms", "native">>, <<"transforms", "text">>,
   <<"transforms", "now">>, <<"transforms", "other">>,
   <<"functions", "now">>, <<"functions", "print">>,
   <<"functions", "dateString">>, <<"functions", "length">>,
   <<"transforms", "has">>, <<"transforms", "pick">>,
   <<"transforms", "pad">>, <<"functions", "id">>,
   <<"functions", "epsilon">>, <<"functions", "native">>,
   <<"functions", "log">>}

Fill(n) == [i \in 1..n |-> Three]

\* The calls with `t` as their first argument.
CallWraps(t) ==
  {JCall(c[1], c[2], <<t>> \o Fill(n)) : c \in Callables, n \in 0..(MaxArgs - 1)}

\* The operands below the root: a few of the shapes above, nested.
Contexts(t) ==
  {JMember(t, "qux"),
   JBinary("==", t, Three),
   JBinary("&&", JRelative("bar"), t),
   JBinary("%%", t, Three),
   JUnary("~", t),
   JUnary("??", t),
   JArray(<<Three, t>>),
   JFilter(Foo, t, HasRelative(t)),
   JCall("transforms", "parseInt", <<t>>),
   JCall("functions", "print", <<t>>)}

\* The shapes that are nested further, below the second level.
DeepContexts(t) ==
  {JMember(t, "qux"),
   JUnary("~", t),
   JCall("transforms", "parseInt", <<t>>)}

RECURSIVE Operands(_)
Operands(depth) ==
  IF depth = 0 THEN Leaves
  ELSE IF depth = 1 THEN Leaves \cup UNION {Contexts(t) : t \in Leaves}
  ELSE Operands(depth - 1)
         \cup UNION {DeepContexts(t) : t \in Operands(depth - 1)}

\* Every shape at the root, over the operands of depth below MaxDepth.
SourceTrees ==
  Leaves
    \cup {JCall(c[1], c[2], <<>>) : c \in Callables}
    \cup UNION {OperatorWraps(t) \cup CallWraps(t) : t \in Operands(MaxDepth - 1)}

-----------------------------------------------------------------------------
(* One call of estreeFromJexlAst(grammar, ast, options) *)

Init ==
  /\ ast \in SourceTrees
  /\ options \in OptionSets
  /\ result = Undefined
  /\ passes = 0
  /\ pc = "ready"

\* The call returns its tree, or throws; `passes` counts the runs of
\* addOptionalChainingToMemberExpressions the call has made by then.
Translate ==
  /\ pc = "ready"
  /\ result' = estreeFromJexlAst(GRAMMAR, ast, options)
  /\ passes' = annotatorRuns(GRAMMAR, ast, options)
  /\ pc' = IF IsErr(result') THEN "thrown" ELSE "returned"
  /\ UNCHANGED <<ast, options>>

Next == Translate

Spec == Init /\ [][Next]_vars

-----------------------------------------------------------------------------
(* Properties of one call *)

\* recur(child): the translation of a child tree under the call's options.
Rewrite(child) == estreeFromJexlAst(GRAMMAR, child, options)

Returned == pc # "ready" /\ ~IsErr(result)

IsBinary(operators) ==
  ast.type = "BinaryExpression" /\ ast.operator \in operators

\* C1: a source `==` (`!=`) comes out as the strict `===` (`!==`) over the
\* rewritten operands; the loose operator is never the output of such a node.
C1_EqualityIsStrict ==
  (Returned /\ IsBinary({"==", "!="})) =>
    /\ result.type = "BinaryExpression"
    /\ result.operator = (IF ast.operator = "==" THEN "===" ELSE "!==")
    /\ result.left = Rewrite(ast.left)
    /\ result.right = Rewrite(ast.right)

\* C2: `L in R` comes out as the call rewrite(R).includes(rewrite(L)): the
\* right operand is the receiver of a non-computed access, the left operand
\* the only argument.
C2_InBecomesIncludes ==
  (Returned /\ IsBinary({"in"})) =>
    /\ result.type = "CallExpression"
    /\ result.callee.type = "MemberExpression"
    /\ ~result.callee.computed
    /\ result.callee.object = Rewrite(ast.right)
    /\ result.callee.property = identifier("includes")
    /\ result.arguments = <<Rewrite(ast.left)>>

\* `bar in [3, ...]`, translated.
C2_Witness ==
  /\ Returned /\ IsBinary({"in"})
  /\ ast.left.type = "Identifier" /\ ast.right.type = "ArrayLiteral"
  /\ result.callee.object.type = "ArrayExpression"
  /\ result.arguments = <<identifier("bar")>>

MathCall(name, arguments) ==
  callExpression(memberExpression(identifier("Math"), identifier(name), FALSE),
                 arguments)

\* C3: `L ^ R` comes out as rewrite(L) ** rewrite(R) or as
\* Math.pow(rewrite(L), rewrite(R)), whatever the grammar registers for `^`
\* and whether or not a function parser is configured: once both operands
\* translate, the call returns one of the two forms.
C3_PowerIsExponentiation ==
  (pc # "ready" /\ IsBinary({"^"})
     /\ ~IsErr(Rewrite(ast.left)) /\ ~IsErr(Rewrite(ast.right))) =>
    \/ result = binaryExpression("**", Rewrite(ast.left), Rewrite(ast.right))
    \/ result = MathCall("pow", <<Rewrite(ast.left), Rewrite(ast.right)>>)

\* `foo.qux ^ 3` translated with no function parser, the grammar registering
\* an implementation of `^`.
C3_Witness ==
  /\ Returned /\ IsBinary({"^"})
  /\ ~options.functionParser
  /\ IsDefined(customOperator(GRAMMAR, "^", "binaryOp"))
  /\ ast.left.type = "Identifier" /\ IsDefined(ast.left.from)
  /\ result.left.type = "MemberExpression"
  /\ result.right = literal(Num("3"))

\* C4: `L // R` comes out as Math.floor(X) with the one argument
\* X = rewrite(L) / rewrite(R).
C4_FloorDivision ==
  (Returned /\ IsBinary({"//"})) =>
    /\ result.type = "CallExpression"
    /\ result.callee = memberExpression(identifier("Math"), identifier("floor"), FALSE)
    /\ Len(result.arguments) = 1
    /\ result.arguments[1] =
         binaryExpression("/", Rewrite(ast.left), Rewrite(ast.right))

\* `.bar // 3`, translated.
C4_Witness ==
  /\ Returned /\ IsBinary({"//"})
  /\ ast.left = JRelative("bar")
  /\ result = MathCall("floor",
       <<binaryExpression("/", identifier("bar"), literal(Num("3")))>>)

\* The child links of a source node, the `from` parent of an identifier included.
SourceChildren(node) ==
  CASE node.type = "Identifier" ->
         IF IsDefined(node.from) THEN <<node.from>> ELSE <<>>
    [] node.type = "UnaryExpression" -> <<node.right>>
    [] node.type = "BinaryExpression" -> <<node.left, node.right>>
    [] node.type = "ConditionalExpression" ->
         <<node.test, node.consequent, node.alternate>>
    [] node.type = "ArrayLiteral" -> node.value
    [] node.type = "ObjectLiteral" ->
         [i \in 1..Len(node.value) |-> node.value[i].value]
    [] node.type = "FilterExpression" -> <<node.subject, node.expr>>
    [] node.type = "FunctionCall" -> node.args
    [] OTHER -> <<>>

\* The nodes of a source tree.
RECURSIVE SourceNodes(_)
SourceNodes(node) ==
  LET children == SourceChildren(node)
  IN {node} \cup UNION {SourceNodes(children[i]) : i \in 1..Len(children)}

StaticUnaryOperators == {"!"}

StaticBinaryOperators ==
  {"&&", "||", "^", "//", "in"} \cup NATIVE_BINARY_OPERATORS

Registered(operator, kind) ==
  /\ operator \in DOMAIN GRAMMAR.elements
  /\ GRAMMAR.elements[operator].type = kind
  /\ IsDefined(GRAMMAR.elements[operator].eval)

\* An operator node whose symbol has no static mapping and no implementation
\* registered in the grammar under its kind.
Unresolvable(node) ==
  \/ /\ node.type = "UnaryExpression"
     /\ node.operator \notin StaticUnaryOperators
     /\ ~Registered(node.operator, "unaryOp")
  \/ /\ node.type = "BinaryExpression"
     /\ node.operator \notin StaticBinaryOperators
     /\ ~Registered(node.operator, "binaryOp")

OperatorSymbols == LeftOperators \cup RightOperators \cup UnaryOperators

IsUnknownOperatorError(r) ==
  /\ IsErr(r)
  /\ r.message \in {"Unknown unary operator: " \o op : op \in OperatorSymbols}
                     \cup {"Unknown binary operator: " \o op : op \in OperatorSymbols}

\* C5: the call fails with the unknown-operator error exactly when the tree
\* holds an operator with neither a static mapping nor an implementation
\* registered under its kind; an operator the grammar registers never gives
\* that error, whatever the options.
C5_UnknownOperatorIff ==
  pc # "ready" =>
    (IsUnknownOperatorError(result)
       <=> \E node \in SourceNodes(ast) : Unresolvable(node))

IsCall == ast.type = "FunctionCall" /\ ast.pool \in {"transforms", "functions"}

RewrittenArgs == [i \in 1..Len(ast.args) |-> Rewrite(ast.args[i])]

ArgsTranslate == \A i \in 1..Len(ast.args) : ~IsErr(Rewrite(ast.args[i]))

\* override > grammar > absent, within the pool of the call.
ChosenImplementation(pool, name) ==
  LET overrides == IF pool = "transforms" THEN options.translateTransforms
                   ELSE options.translateFunctions
      registered == IF pool = "transforms" THEN GRAMMAR.transforms
                    ELSE GRAMMAR.functions
  IN IF name \in DOMAIN overrides THEN overrides[name]
     ELSE IF name \in DOMAIN registered THEN registered[name]
     ELSE Undefined

\* What the call returns when `func` is the implementation it inlines.
OutcomeWith(func) ==
  LET inline == createExpressionFromFunction(options, func, RewrittenArgs)
  IN IF IsErr(inline) THEN inline
     ELSE addOptionalChainingToMemberExpressions(
            IF IsDefined(inline) THEN inline
            ELSE callExpression(identifier(ast.name), RewrittenArgs),
            options)

\* C6: a call of pool P and name N inlines the override of P for N when there
\* is one, else the grammar's entry of P for N, else nothing; the tables of
\* the other pool are never used.
C6_OverrideThenGrammar ==
  (pc # "ready" /\ IsCall /\ ArgsTranslate) =>
    result = OutcomeWith(ChosenImplementation(ast.pool, ast.name))

\* `x | length` with an override and a grammar entry for the transform
\* `length`, and an override of the other pool under the same name: the
\* transform override (val.size) is the one inlined.
C6_Witness ==
  /\ Returned /\ IsCall
  /\ ast.pool = "transforms" /\ ast.name = "length"
  /\ "length" \in DOMAIN options.translateTransforms
  /\ "length" \in DOMAIN options.translateFunctions
  /\ "length" \in DOMAIN GRAMMAR.transforms
  /\ result.type = "MemberExpression"
  /\ result.property = identifier("size")

\* The printed source parses to a function the inliner accepts.
IsFunctionSource(parsed) ==
  /\ parsed.body # <<>>
  /\ LET first == parsed.body[1]
     IN \/ first.type = "FunctionDeclaration"
        \/ /\ first.type = "ExpressionStatement"
           /\ first.expression.type
                \in {"ArrowFunctionExpression", "FunctionDeclaration"}
        \/ first.type = "ArrowFunctionExpression"

\* No inline expression is available for `func`.
InlineUnavailable(func) ==
  \/ ~IsDefined(func)
  \/ ~options.functionParser
  \/ (~IsErr(func.parsed) /\ ~IsFunctionSource(func.parsed))

\* C7: a call N(a1..an) with no inline expression available (no
\* implementation, no function parser, or a source that is no function)
\* returns exactly the plain call N(rewrite(a1), ..., rewrite(an)) and raises
\* no error.
C7_FallbackPlainCall ==
  (pc # "ready" /\ IsCall /\ ArgsTranslate
     /\ InlineUnavailable(ChosenImplementation(ast.pool, ast.name))) =>
    result = callExpression(identifier(ast.name), RewrittenArgs)

\* `x | text(3)` with a function parser: the registered source "value + 1"
\* is no function, and the plain call text(x, 3) comes out.
C7_Witness ==
  /\ Returned /\ IsCall
  /\ ast.name = "text" /\ options.functionParser
  /\ IsDefined(ChosenImplementation(ast.pool, ast.name))
  /\ Len(ast.args) = 2
  /\ result = callExpression(identifier("text"), RewrittenArgs)

IsRelativeFilter == ast.type = "FilterExpression" /\ ast.relative

\* The names of the relative identifiers of a predicate.
RelativeNames(expr) ==
  {node.value : node \in {n \in SourceNodes(expr) :
                            n.type = "Identifier" /\ n.relative}}

\* The names a parameter pattern of the predicate arrow binds, in order.
PatternNames(pattern) ==
  [i \in 1..Len(pattern.properties) |-> pattern.properties[i].key.name]

\* C8: the predicate arrow of a relative filter has exactly one parameter, an
\* object pattern whose property names are exactly the relative identifier
\* names of the predicate, each once.
C8_OneDestructuredParameter ==
  (Returned /\ IsRelativeFilter) =>
    LET arrow == result.arguments[1]
    IN /\ Len(arrow.params) = 1
       /\ arrow.params[1].type = "ObjectPattern"
       /\ LET names == PatternNames(arrow.params[1])
          IN /\ {names[i] : i \in 1..Len(names)} = RelativeNames(ast.expr)
             /\ \A i, j \in 1..Len(names) : names[i] = names[j] => i = j

\* C9: the scan of a filter predicate returns the name of every relative
\* identifier reachable in it through any child link, the `from` parent of a
\* member chain included.
C9_ScanComplete ==
  (pc # "ready" /\ ast.type = "FilterExpression") =>
    LET found == findAllRelativeIdentifiers(ast.expr)
    IN RelativeNames(ast.expr) \subseteq {found[i] : i \in 1..Len(found)}

ParamNames(params) ==
  {params[i].name : i \in {j \in 1..Len(params) : params[j].type = "Identifier"}}

\* The names a target tree refers to without binding them: identifiers in
\* reference position outside the scope of an arrow parameter of that name.
RECURSIVE FreeNames(_)
FreeNames(node) ==
  LET FreeIn(nodes) == UNION {FreeNames(nodes[i]) : i \in 1..Len(nodes)}
  IN CASE node.type = "Identifier" -> {node.name}
       [] node.type = "MemberExpression" ->
            FreeNames(node.object)
              \cup (IF node.computed THEN FreeNames(node.property) ELSE {})
       [] node.type = "UnaryExpression" -> FreeNames(node.argument)
       [] node.type \in {"BinaryExpression", "LogicalExpression"} ->
            FreeNames(node.left) \cup FreeNames(node.right)
       [] node.type = "ConditionalExpression" ->
            FreeNames(node.test) \cup FreeNames(node.consequent)
              \cup FreeNames(node.alternate)
       [] node.type = "ArrayExpression" -> FreeIn(node.elements)
       [] node.type = "ObjectExpression" -> FreeIn(node.properties)
       [] node.type = "Property" ->
            FreeNames(node.value)
              \cup (IF node.computed THEN FreeNames(node.key) ELSE {})
       [] node.type \in {"CallExpression", "NewExpression"} ->
            FreeNames(node.callee) \cup FreeIn(node.arguments)
       [] node.type = "ArrowFunctionExpression" ->
            FreeNames(node.body)
              \ UNION {IF node.params[i].type = "Identifier"
                       THEN {node.params[i].name}
                       ELSE {node.params[i].properties[j].key.name :
                               j \in 1..Len(node.params[i].properties)} :
                       i \in 1..Len(node.params)}
       [] node.type = "BlockStatement" -> FreeIn(node.body)
       [] node.type = "ReturnStatement" -> FreeNames(node.argument)
       [] node.type = "ExpressionStatement" -> FreeNames(node.expression)
       [] OTHER -> {}

\* The implementation the call at the root of the source tree resolves to.
Implementation == ChosenImplementation(ast.pool, ast.name)

\* The root of the source tree is a call that is inlined.
IsInlinedCall ==
  /\ IsCall /\ ArgsTranslate
  /\ options.functionParser
  /\ IsDefined(Implementation)
  /\ ~IsErr(Implementation.parsed)
  /\ IsFunctionSource(Implementation.parsed)

\* The parsed function that is inlined.
InlinedFunction ==
  LET first == Implementation.parsed.body[1]
  IN IF first.type = "ExpressionStatement" THEN first.expression ELSE first

\* Names that are free in one of the argument trees of the call.
ArgumentNames ==
  UNION {FreeNames(RewrittenArgs[i]) : i \in 1..Len(RewrittenArgs)}

\* C11: a callable with parameters p0..pk-1 inlined with n < k arguments
\* leaves no reference to a parameter pi, i >= n, in the result and raises
\* no error.
C11_MissingArgumentsAreUndefined ==
  (pc # "ready" /\ IsInlinedCall
     /\ Len(ast.args) < Len(InlinedFunction.params)) =>
    /\ ~IsErr(result)
    /\ \A i \in (Len(ast.args) + 1)..Len(InlinedFunction.params) :
         InlinedFunction.params[i].type = "Identifier" =>
           InlinedFunction.params[i].name \notin FreeNames(result) \ ArgumentNames

IsPlaceholder(node) == node.type = "Identifier" /\ node.name = "undefined"

\* The child trees of a target node, in order.
TargetChildren(node) ==
  CASE node.type = "MemberExpression" -> <<node.object, node.property>>
    [] node.type = "UnaryExpression" -> <<node.argument>>
    [] node.type \in {"BinaryExpression", "LogicalExpression"} ->
         <<node.left, node.right>>
    [] node.type = "ConditionalExpression" ->
         <<node.test, node.consequent, node.alternate>>
    [] node.type = "ArrayExpression" -> node.elements
    [] node.type \in {"ObjectExpression", "ObjectPattern"} -> node.properties
    [] node.type = "Property" -> <<node.key, node.value>>
    [] node.type \in {"CallExpression", "NewExpression"} ->
         <<node.callee>> \o node.arguments
    [] node.type = "ArrowFunctionExpression" -> node.params \o <<node.body>>
    [] node.type = "BlockStatement" -> node.body
    [] node.type = "ReturnStatement" -> <<node.argument>>
    [] node.type = "ExpressionStatement" -> <<node.expression>>
    [] OTHER -> <<>>

\* Every node of a target tree.
RECURSIVE TargetNodes(_)
TargetNodes(node) ==
  {node} \cup UNION {TargetNodes(TargetChildren(node)[i]) :
                       i \in 1..Len(TargetChildren(node))}

\* An argument list without its maximal trailing run of placeholders.
TrimmedArguments(arguments) ==
  LET kept == {i \in 1..Len(arguments) : ~IsPlaceholder(arguments[i])}
      last == IF kept = {} THEN 0
              ELSE CHOOSE i \in kept : \A j \in kept : j <= i
  IN SubSeq(arguments, 1, last)

\* A target tree with the argument list of every call in it trimmed.
RECURSIVE Trimmed(_)
Trimmed(node) ==
  LET T(ns) == [i \in 1..Len(ns) |-> Trimmed(ns[i])]
  IN CASE node.type = "CallExpression" ->
            [node EXCEPT !.callee = Trimmed(node.callee),
                         !.arguments = T(TrimmedArguments(node.arguments))]
       [] node.type = "NewExpression" ->
            [node EXCEPT !.callee = Trimmed(node.callee),
                         !.arguments = T(node.arguments)]
       [] node.type = "MemberExpression" ->
            [node EXCEPT !.object = Trimmed(node.object),
                         !.property = Trimmed(node.property)]
       [] node.type = "UnaryExpression" ->
            [node EXCEPT !.argument = Trimmed(node.argument)]
       [] node.type \in {"BinaryExpression", "LogicalExpression"} ->
            [node EXCEPT !.left = Trimmed(node.left),
                         !.right = Trimmed(node.right)]
       [] node.type = "ConditionalExpression" ->
            [node EXCEPT !.test = Trimmed(node.test),
                         !.consequent = Trimmed(node.consequent),
                         !.alternate = Trimmed(node.alternate)]
       [] node.type = "ArrayExpression" ->
            [node EXCEPT !.elements = T(node.elements)]
       [] node.type = "ObjectExpression" ->
            [node EXCEPT !.properties = T(node.properties)]
       [] node.type = "Property" ->
            [node EXCEPT !.key = Trimmed(node.key),
                         !.value = Trimmed(node.value)]
       [] node.type = "ArrowFunctionExpression" ->
            [node EXCEPT !.body = Trimmed(node.body)]
       [] node.type = "BlockStatement" -> [node EXCEPT !.body = T(node.body)]
       [] node.type = "ReturnStatement" ->
            [node EXCEPT !.argument = Trimmed(node.argument)]
       [] node.type = "ExpressionStatement" ->
            [node EXCEPT !.expression = Trimmed(node.expression)]
       [] OTHER -> node

\* The body of the inlined function after the substitution traversal.
SubstitutedBody ==
  substitutedBody(InlinedFunction.body, InlinedFunction.params, RewrittenArgs)

\* C12: after inlining, the argument list of every call of the substituted
\* body is the list before pruning without its maximal trailing run of
\* `undefined` identifiers: the last argument left is no placeholder, and a
\* placeholder before a real argument stays where it is.
C12_TrailingPlaceholdersPruned ==
  (pc # "ready" /\ IsInlinedCall) =>
    /\ prune(SubstitutedBody) = Trimmed(SubstitutedBody)
    /\ ~IsErr(result)
    /\ \A node \in TargetNodes(result) :
         (node.type = "CallExpression" /\ node.arguments # <<>>) =>
           ~IsPlaceholder(node.arguments[Len(node.arguments)])

\* `foo | pad`, with (val, fill) => String(pad(fill, val, fill), fill):
\* String(pad(undefined, foo)).
C12_Witness ==
  /\ Returned /\ IsInlinedCall
  /\ ast.name = "pad" /\ Len(ast.args) = 1
  /\ result = callExpression(identifier("String"),
                <<callExpression(identifier("pad"),
                    <<identifier("undefined"), Rewrite(ast.args[1])>>)>>)

IsMember(node) == node.type = "MemberExpression"

\* The expression a chain of member accesses starts from.
RECURSIVE ChainRoot(_)
ChainRoot(node) == IF IsMember(node) THEN ChainRoot(node.object) ELSE node

\* The names of a chain of accesses by static name (a.b, a["b"]) that starts
\* from an identifier; empty for every other expression.
RECURSIVE DottedPath(_)
DottedPath(node) ==
  IF node.type = "Identifier" THEN <<node.name>>
  ELSE IF IsMember(node) /\ DottedPath(node.object) # <<>>
       THEN IF ~node.computed /\ node.property.type = "Identifier"
            THEN Append(DottedPath(node.object), node.property.name)
            ELSE IF node.computed /\ node.property.type = "Literal"
                    /\ node.property.value.t = "string"
                 THEN Append(DottedPath(node.object), node.property.value.v)
                 ELSE <<>>
       ELSE <<>>

\* The root name is built in, or the caller's predicate accepts it alone.
AlwaysDefinedRoot(name) ==
  name \in BUILT_IN_IDENTIFIERS \/ <<name>> \in options.isIdentifierAlwaysDefined

\* C13, as stated: every access whose object chain starts from an identifier
\* R that is built in or accepted by isIdentifierAlwaysDefined([R]) is not
\* optional, at every depth off R.
C13_RootDecidesEveryDepth ==
  Returned =>
    \A node \in TargetNodes(result) :
      (IsMember(node)
         /\ ChainRoot(node.object).type = "Identifier"
         /\ AlwaysDefinedRoot(ChainRoot(node.object).name)) =>
        ~node.optional

\* C13, amended: every access whose object is a chain of static names P
\* starting from an identifier is not optional when the first name of P is
\* built in (at every depth) or when isIdentifierAlwaysDefined accepts the
\* whole path P; accepting the root alone does not cover longer paths.
C13_FullPathDecides ==
  Returned =>
    \A node \in TargetNodes(result) :
      (IsMember(node)
         /\ DottedPath(node.object) # <<>>
         /\ (DottedPath(node.object)[1] \in BUILT_IN_IDENTIFIERS
             \/ DottedPath(node.object) \in options.isIdentifierAlwaysDefined))
        => ~node.optional

\* `foo.qux.qux` where the predicate accepts [foo] and [foo, qux]: the access
\* off foo.qux is not optional.
C13_Witness ==
  /\ Returned
  /\ IsMember(result) /\ IsMember(result.object)
  /\ DottedPath(result.object) = <<"foo", "qux">>
  /\ DottedPath(result.object) \in options.isIdentifierAlwaysDefined
  /\ ~result.optional /\ ~result.object.optional

\* C14: every access whose immediate object is a `new` expression is not
\* optional, whatever the predicate isIdentifierAlwaysDefined answers.
C14_NewObjectNeverOptional ==
  Returned =>
    \A node \in TargetNodes(result) :
      (IsMember(node) /\ node.object.type = "NewExpression") => ~node.optional

\* `dateString(3)`: new Date(3).toString(), the access off `new Date(3)`.
C14_Witness ==
  /\ Returned /\ IsInlinedCall /\ ast.name = "dateString"
  /\ result.type = "CallExpression" /\ IsMember(result.callee)
  /\ result.callee.object.type = "NewExpression"
  /\ ~result.callee.optional

IsStaticLiteral(node) ==
  node.type \in {"ArrayExpression", "ObjectExpression", "Literal"}

\* C15: every access, computed or not, whose immediate object is an array
\* expression, an object expression or a literal is not optional.
C15_StaticObjectNeverOptional ==
  Returned =>
    \A node \in TargetNodes(result) :
      (IsMember(node) /\ IsStaticLiteral(node.object)) => ~node.optional

\* `3[3]`, a computed access on a literal, and `foo | pick(3)`, a static
\* access on an object expression.
C15_Witness ==
  /\ Returned /\ IsMember(result) /\ ~result.optional
  /\ \/ (result.computed /\ result.object.type = "Literal")
     \/ (~result.computed /\ result.object.type = "ObjectExpression")

\* The object of an access is exempt from optional chaining: a `new`
\* expression, a static literal, or a chain of static names from an
\* identifier that is built in or that the predicate accepts.
IsExemptObject(object) ==
  \/ object.type = "NewExpression"
  \/ IsStaticLiteral(object)
  \/ /\ DottedPath(object) # <<>>
     /\ \/ DottedPath(object)[1] \in BUILT_IN_IDENTIFIERS
        \/ DottedPath(object) \in options.isIdentifierAlwaysDefined

\* C16: every access whose object is none of a `new` expression, a static
\* literal, or an always-defined identifier path is optional.
C16_OptionalOtherwise ==
  Returned =>
    \A node \in TargetNodes(result) :
      (IsMember(node) /\ ~IsExemptObject(node.object)) => node.optional

\* The implementation a source node has inlined, if it is a call or a custom
\* operator.
ImplementationOf(node) ==
  CASE node.type = "FunctionCall" /\ node.pool \in {"transforms", "functions"} ->
         ChosenImplementation(node.pool, node.name)
    [] node.type = "UnaryExpression"
         /\ node.operator \notin StaticUnaryOperators
         /\ Registered(node.operator, "unaryOp") ->
         GRAMMAR.elements[node.operator].eval
    [] node.type = "BinaryExpression"
         /\ node.operator \notin StaticBinaryOperators
         /\ Registered(node.operator, "binaryOp") ->
         GRAMMAR.elements[node.operator].eval
    [] OTHER -> Undefined

\* The errors the function parser throws on the sources of the callables of
\* a source tree.
ParserErrors(tree) ==
  {ImplementationOf(node).parsed :
     node \in {n \in SourceNodes(tree) :
                 /\ IsDefined(ImplementationOf(n))
                 /\ IsErr(ImplementationOf(n).parsed)}}

\* C18: when the function parser throws on the source of a function,
\* transform or operator of the tree, the whole call throws: no tree is
\* returned, no plain call stands in for the callable, and the error is the
\* parser's unless an unknown operator is met first.
C18_ParserErrorPropagates ==
  (pc # "ready" /\ options.functionParser /\ ParserErrors(ast) # {}) =>
    /\ IsErr(result)
    /\ (~\E node \in SourceNodes(ast) : Unresolvable(node)) =>
         result \in ParserErrors(ast)

\* `[3, foo %% 3]` with `%%` registered as a native function: the call throws
\* the parser's error from below the root.
C18_Witness ==
  /\ pc # "ready" /\ options.functionParser
  /\ ast.type = "ArrayLiteral"
  /\ ParserErrors(ast) # {}
  /\ result \in ParserErrors(ast)

\* C19: the result of inlining holds no free reference to a formal parameter
\* of the callable, apart from those inside the argument trees, whatever the
\* shape of the body.
C19_EveryParameterSubstituted ==
  (pc # "ready" /\ IsInlinedCall) =>
    /\ ~IsErr(result)
    /\ ParamNames(InlinedFunction.params)
         \cap (FreeNames(result) \ ArgumentNames) = {}

\* The arrow functions inside a target tree.
ArrowsIn(tree) ==
  {node \in TargetNodes(tree) : node.type = "ArrowFunctionExpression"}

\* The parameters of an arrow function that its body refers to.
BoundUses(arrow) == FreeNames(arrow.body) \cap ParamNames(arrow.params)

\* The names used as non-computed property names and object keys in a tree.
StaticNames(tree) ==
  {node.property.name :
     node \in {n \in TargetNodes(tree) : IsMember(n) /\ ~n.computed}}
    \cup {node.key.name :
            node \in {n \in TargetNodes(tree) :
                        n.type = "Property" /\ ~n.computed}}

\* C20: only free references are replaced: every arrow function of the body
\* is found in the result with the same parameters and the same references
\* to them, and every non-computed property name and object key of the body
\* is still in the result.
C20_OnlyFreeReferencesReplaced ==
  (pc # "ready" /\ IsInlinedCall) =>
    /\ ~IsErr(result)
    /\ \A arrow \in ArrowsIn(InlinedFunction.body) :
         \E inlined \in ArrowsIn(result) :
           /\ inlined.params = arrow.params
           /\ BoundUses(inlined) = BoundUses(arrow)
    /\ StaticNames(InlinedFunction.body) \subseteq StaticNames(result)

\* C26: one call runs the optional-chaining pass exactly once, on the
\* complete tree: no pass is run on a sub-tree while the enclosing tree is
\* still being rewritten, and no node is visited in two passes.
C26_AnnotatorRunsOnce ==
  Returned => passes = 1

\* The optional-chaining pass of the call, on an expression.
Annotated(expression) ==
  addOptionalChainingToMemberExpressions(expression, options)

\* The body of the inlined function with every reference to a parameter
\* replaced and the trailing placeholders pruned.
InlinedBody ==
  prune(substitute(InlinedFunction.body, InlinedFunction.params, RewrittenArgs))

\* C22: an expression body is inlined as the substituted expression; a block
\* of exactly one return statement as the returned expression; every other
\* block as a call without arguments of a parameterless arrow function whose
\* body is the whole substituted block.
C22_InlinerSimplification ==
  (pc # "ready" /\ IsInlinedCall) =>
    IF InlinedBody.type # "BlockStatement"
    THEN result = Annotated(InlinedBody)
    ELSE IF Len(InlinedBody.body) = 1
            /\ InlinedBody.body[1].type = "ReturnStatement"
         THEN result = Annotated(InlinedBody.body[1].argument)
         ELSE result = Annotated(callExpression(
                         arrowFunctionExpression(<<>>, InlinedBody), <<>>))

\* The operands the root of the source tree hands to its implementation.
RootArguments ==
  CASE ast.type = "FunctionCall" -> ast.args
    [] ast.type = "UnaryExpression" -> <<ast.right>>
    [] ast.type = "BinaryExpression" -> <<ast.left, ast.right>>
    [] OTHER -> <<>>

\* The root of the source tree is a call or a custom operator, and the tree
\* returned is its inlined implementation.
RootInlined ==
  /\ Returned /\ options.functionParser
  /\ IsDefined(ImplementationOf(ast))
  /\ ~IsErr(ImplementationOf(ast).parsed)
  /\ IsFunctionSource(ImplementationOf(ast).parsed)

\* The parsed function inlined at the root.
RootFunction ==
  LET first == ImplementationOf(ast).parsed.body[1]
  IN IF first.type = "ExpressionStatement" THEN first.expression ELSE first

\* The argument objects held by the tree the inliner returns for the root,
\* one entry for every site: a body that is one bare identifier is returned
\* as it was parsed and holds none.
InsertedSites ==
  IF RootFunction.body.type = "Identifier" THEN <<>>
  ELSE insertedArguments(RootFunction.body, RootFunction.params,
         [i \in 1..Len(RootArguments) |-> Rewrite(RootArguments[i])])

\* C23: the returned structure is a tree: no node object has two parents.
\* When the inlined body refers to a parameter at two or more sites, each
\* site holds a copy of its own of the argument tree, never the one object.
C23_NoSharedArgument ==
  RootInlined =>
    \A i, j \in 1..Len(InsertedSites) :
      InsertedSites[i] = InsertedSites[j] => i = j

\* The arguments of the call that have a parameter to stand for, and the
\* surplus after them.
MatchedArgs ==
  SubSeq(RewrittenArgs, 1, Len(InlinedFunction.params))

SurplusArgs ==
  SubSeq(RewrittenArgs, Len(InlinedFunction.params) + 1, Len(RewrittenArgs))

C28_PathNeedsIdentifierRoot ==
  Returned =>
    \A node \in TargetNodes(result) :
      (IsMember(node) /\ IsMember(node.object)
         /\ ChainRoot(node.object).type # "Identifier") =>
        /\ getIdentifierPathFromNodePath(node.object) = <<>>
        /\ node.optional

\* A chain of accesses with a step computed from an identifier (a[b]).
RECURSIVE HasComputedStep(_)
HasComputedStep(node) ==
  /\ IsMember(node)
  /\ \/ node.computed /\ node.property.type = "Identifier"
     \/ HasComputedStep(node.object)

\* C29: an access computed from an identifier (a[b]) is no step of a static
\* path: an access whose object chain holds such a step is optional, whatever
\* paths the predicate accepts.
C29_ComputedStepIsNotStatic ==
  Returned =>
    \A node \in TargetNodes(result) :
      (IsMember(node) /\ HasComputedStep(node.object)) => node.optional

\* The grammar without its registrations for the symbols that have a static
\* mapping.
StaticOnlyGrammar ==
  [GRAMMAR EXCEPT !.elements =
     [sym \in DOMAIN GRAMMAR.elements
                \ (StaticBinaryOperators \cup StaticUnaryOperators) |->
        GRAMMAR.elements[sym]]]

\* C30: the static mappings come before the grammar: what the grammar
\* registers for a statically mapped symbol (`^`, `==`, `!`) is never read,
\* so the call gives the same outcome with those registrations removed, and
\* `L ^ R` and `!R` come out as the static forms also when a function parser
\* could inline the registered implementations.
C30_StaticBeforeGrammar ==
  pc # "ready" =>
    /\ result = estreeFromJexlAst(StaticOnlyGrammar, ast, options)
    /\ (Returned /\ IsBinary({"^"})) =>
         result = binaryExpression("**", Rewrite(ast.left), Rewrite(ast.right))
    /\ (Returned /\ ast.type = "UnaryExpression" /\ ast.operator = "!") =>
         result = unaryExpression("!", Rewrite(ast.right))

\* `foo.qux ^ 3` with a function parser configured and `^` registered as
\* Math.pow: the result is `**`, not the inlined call.
C30_Witness ==
  /\ Returned /\ IsBinary({"^"})
  /\ options.functionParser
  /\ Registered("^", "binaryOp")
  /\ ast.left.type = "Identifier" /\ IsDefined(ast.left.from)
  /\ result.type = "BinaryExpression" /\ result.operator = "**"
  /\ IsMember(result.left)

====
